---- MODULE Spec2Model ----
(***************************************************************************)
(* A model of iolib (src/iolib/main.py): the raw-key line editor of        *)
(* input_write, the selection menu, and the IODisplay scrolling display.   *)
(*                                                                         *)
(* One behaviour of the model is one call of one of the public entry       *)
(* points; `prog` says which, and is chosen in Init.  Spec runs an         *)
(* IODisplay that is started once, without a handler, each call of push,   *)
(* clear, get and stop in one step.  RestartSpec starts the display more   *)
(* than once, FairStopSpec schedules the started thread fairly,            *)
(* HandlerSpec supplies a handler, FlushSpec gives keys, push and clear    *)
(* only, PushRaceSpec runs push statement by statement in two contexts,    *)
(* and HandlerStopSpec supplies a handler that calls stop().               *)
(*                                                                         *)
(* Text is a sequence of one-character strings.  What the program writes   *)
(* to sys.stdout is a sequence of tokens: a character, or one of the       *)
(* control tokens "CR", "NL", "UP", "DOWN", "LEFT", "RIGHT".  The terminal *)
(* is the result of applying every emitted token in order (sys.stdout is   *)
(* taken as unbuffered: flush() changes nothing here).  Lines do not wrap. *)
(***************************************************************************)
EXTENDS Integers, Sequences, FiniteSets, TLC

VARIABLES
    prog,       \* which entry point this behaviour runs
    pc,         \* position of the calling thread
    term,       \* the terminal: [row, col, scr]
    prompt,     \* input_write's prompt / IODisplay.prompt
    edit,       \* input_write's initial editable text
    written,    \* input_write's `written` / IODisplay._written
    curr,       \* the key loop's local cursor index `curr`
    last_key,   \* the key loop's local `last_key`
    result,     \* the value returned by the call, <<>> until it returns
    fault,      \* the exception that ended the call, "" while there is none
    options,    \* selection's options
    active,     \* selection's marker of the highlighted option
    passive,    \* selection's marker of the other options
    wrap,       \* selection's wrap flag
    idx,        \* selection's highlighted index `idx`
    keys_read,  \* the keys selection has taken from msvcrt.getch(), in order
    lines,      \* IODisplay.lines, the capacity of the registry
    dispatch_on_enter,  \* IODisplay.dispatch_on_enter
    running,    \* IODisplay._running
    regestry,   \* IODisplay._regestry
    thread,     \* IODisplay._thread: "none" or "thread"
    wpc,        \* position of the context that runs IODisplay._start
    stop_dispatch,  \* the dispatch argument of the stop() waiting in join()
    pushed,     \* history: the strings pushed since the last clear, oldest first
    stops,      \* history: how many stop() calls in a row have just returned
    snap,       \* history: what the first of those calls left behind
    ops,        \* history: how many keys and calls the display has been given
    orphan,     \* the key loop of a thread that _thread no longer refers to
    callback,   \* IODisplay.callback: "none", or what the handler does
    string,     \* the local `string` of the key loop's Enter branch
    hpush,      \* a push() running inside the handler: [pc, o, tmp]
    cpush       \* a push() running on the caller's thread: [pc, o, tmp]

edvars == <<prompt, edit, written, curr, last_key>>
selvars == <<options, active, passive, wrap, idx, keys_read>>
cfgvars == <<lines, dispatch_on_enter>>
hvars == <<orphan, callback, string, hpush, cpush>>
dvars == <<cfgvars, running, regestry, thread, wpc, stop_dispatch,
           pushed, stops, snap, ops, hvars>>
vars == <<prog, pc, term, result, fault, edvars, selvars, dvars>>

-----------------------------------------------------------------------------
(* Bounds of the model *)

\* longest text the line editors are driven to
MaxLen == 2
\* rows of the modelled terminal
TermRows == 4
\* keys one selection call is fed
MaxSelKeys == 4
\* largest capacity of an IODisplay
MaxLines == 2
\* lines pushed to an IODisplay between two clears
MaxPushed == 3
\* keys and calls of stop, push, clear and get that one IODisplay is given
MaxOps == 4

-----------------------------------------------------------------------------
(* Raw key codes: the byte msvcrt.getch() returns, as its integer value *)

UP == 72
DOWN == 80
RIGHT == 77
LEFT == 75
ENTER == 13
BACKSPACE == 8
SPECIAL == 0
IGNORE == {RIGHT, LEFT, 72, 80}
\* last_key = "" : no key read yet
NoKey == -1
\* the byte of the letter "a", a key that collides with no navigation code
PlainKeys == {97}

\* bytes.decode() on the one-byte keys the model feeds
Decode(key) ==
    CASE key = 97 -> "a"
      [] key = 72 -> "H"
      [] key = 75 -> "K"
      [] key = 77 -> "M"
      [] key = 80 -> "P"

-----------------------------------------------------------------------------
(* Python sequence operations *)

Min(a, b) == IF a < b THEN a ELSE b
Max(a, b) == IF a > b THEN a ELSE b

\* x * n for a one-element string or list
Rep(x, n) == [i \in 1..n |-> x]

\* s[a:b] with Python's clamping of the bounds (0-based, b exclusive)
Slice(s, a, b) ==
    LET lo == Min(Max(a, 0), Len(s))
        hi == Min(Max(b, 0), Len(s))
    IN  IF lo >= hi THEN <<>> ELSE SubSeq(s, lo + 1, hi)

\* list.insert(i, x): the index is clamped to the list's extent
InsertAt(s, i, x) ==
    LET k == Min(Max(i, 0), Len(s))
    IN  SubSeq(s, 1, k) \o <<x>> \o SubSeq(s, k + 1, Len(s))

\* list.pop(i) raises IndexError unless 0 <= i < len (i is never negative here)
PopFaults(s, i) == i < 0 \/ i >= Len(s)
PopAt(s, i) == SubSeq(s, 1, i) \o SubSeq(s, i + 2, Len(s))

-----------------------------------------------------------------------------
(* The terminal *)

ANSI_UP == <<"UP">>
ANSI_DOWN == <<"DOWN">>
ANSI_RIGHT == <<"RIGHT">>
ANSI_LEFT == <<"LEFT">>

\* f"\u001b[{n}D": cursor back n columns; a terminal reads a count of 0 as 1
CSILeft(n) == Rep("LEFT", IF n = 0 THEN 1 ELSE n)

RECURSIVE Strip(_)
\* a row without its trailing blanks: a blank cell and an unwritten one look alike
Strip(s) ==
    IF s = <<>> THEN <<>>
    ELSE IF s[Len(s)] = " " THEN Strip(SubSeq(s, 1, Len(s) - 1))
    ELSE s

BlankTerm == [row |-> 0, col |-> 0, scr |-> [r \in 1..TermRows |-> <<>>]]

\* a printing character overwrites the cell under the cursor and advances it
TermPutChar(t, ch) ==
    LET line == t.scr[t.row + 1]
        wide == Max(Len(line), t.col + 1)
        new  == [i \in 1..wide |->
                    IF i = t.col + 1 THEN ch
                    ELSE IF i <= Len(line) THEN line[i] ELSE " "]
    IN  [t EXCEPT !.scr[t.row + 1] = Strip(new), !.col = t.col + 1]

\* a line feed at the bottom row scrolls the screen up by one row
TermNewline(t) ==
    IF t.row + 1 < TermRows
    THEN [t EXCEPT !.row = t.row + 1, !.col = 0]
    ELSE [t EXCEPT !.col = 0,
                   !.scr = [r \in 1..TermRows |->
                               IF r < TermRows THEN t.scr[r + 1] ELSE <<>>]]

TermPut(t, tok) ==
    CASE tok = "CR"    -> [t EXCEPT !.col = 0]
      [] tok = "NL"    -> TermNewline(t)
      [] tok = "UP"    -> [t EXCEPT !.row = Max(t.row - 1, 0)]
      [] tok = "DOWN"  -> [t EXCEPT !.row = Min(t.row + 1, TermRows - 1)]
      [] tok = "LEFT"  -> [t EXCEPT !.col = Max(t.col - 1, 0)]
      [] tok = "RIGHT" -> [t EXCEPT !.col = t.col + 1]
      [] OTHER         -> TermPutChar(t, tok)

RECURSIVE TermWrite(_, _)
\* sys.stdout.write(toks)
TermWrite(t, toks) ==
    IF toks = <<>> THEN t
    ELSE TermWrite(TermPut(t, Head(toks)), Tail(toks))

RECURSIVE TermRowsWritten(_, _)
\* the rows on which sys.stdout.write(toks) puts a character
TermRowsWritten(t, toks) ==
    IF toks = <<>> THEN {}
    ELSE (IF Head(toks) \in {"CR", "NL", "UP", "DOWN", "LEFT", "RIGHT"}
          THEN {} ELSE {t.row})
         \cup TermRowsWritten(TermPut(t, Head(toks)), Tail(toks))

-----------------------------------------------------------------------------
(* input_write(prompt, edit) *)

Prompts == {<<>>, <<"?">>}
Edits == {<<>>, <<"a">>, <<"M", "a">>}
EditKeys == {ENTER, BACKSPACE, SPECIAL, RIGHT, LEFT, UP} \cup PlainKeys

\* the effect of one branch of a key loop: the buffer, the cursor, the tokens written
Effect(w, c, out) == [written |-> w, curr |-> c, out |-> out]

IWRight(w, c) ==
    IF c < Len(w) THEN Effect(w, c + 1, ANSI_RIGHT) ELSE Effect(w, c, <<>>)

IWLeft(w, c) ==
    IF c > 0 THEN Effect(w, c - 1, ANSI_LEFT) ELSE Effect(w, c, <<>>)

\* IWBackspace without the test of the cursor against the left end
IWBackspaceNoLeftEnd(w, c) ==
    IF w /= <<>>
    THEN LET rest == Slice(w, c, Len(w))
         IN  Effect(PopAt(w, Max(c - 1, 0)), c - 1,
                    ANSI_LEFT \o rest \o <<" ">> \o CSILeft(Len(rest) + 1))
    ELSE Effect(w, c, <<>>)

IWBackspace(w, c) ==
    IF w /= <<>> /\ ~(c <= 0)
    THEN LET size == Len(w)
             rest == Slice(w, c, size)
             n    == Len(rest) + 1
         IN  Effect(PopAt(w, c - 1), c - 1,
                    ANSI_LEFT \o rest \o <<" ">> \o CSILeft(n))
    ELSE Effect(w, c, <<>>)

\* the else branch: SPECIAL and a prefixed navigation code are dropped
IWSkipsKey(key, last) ==
    key = SPECIAL \/ (key \in IGNORE /\ last = SPECIAL)

\* IWInsert without the n > 0 test before the cursor-back sequence
IWInsertAlwaysBack(w, c, key) ==
    LET letter == Decode(key)
        w1     == InsertAt(w, c, letter)
        rest   == Slice(w1, c + 1, Len(w1))
    IN  Effect(w1, c + 1, <<letter>> \o rest \o CSILeft(Len(w1) - (c + 1)))

IWInsert(w, c, key) ==
    LET letter == Decode(key)
        w1     == InsertAt(w, c, letter)
        c1     == c + 1
        size   == Len(w1)
        rest   == Slice(w1, c1, size)
        n      == size - c1
    IN  Effect(w1, c1,
               <<letter>> \o rest \o (IF n > 0 THEN CSILeft(n) ELSE <<>>))

\* which branch of the loop body a key takes
IWBranch(key, last) ==
    CASE key = ENTER                     -> "enter"
      [] key = RIGHT /\ last = SPECIAL   -> "right"
      [] key = LEFT /\ last = SPECIAL    -> "left"
      [] key = BACKSPACE                 -> "backspace"
      [] OTHER -> IF IWSkipsKey(key, last) THEN "skip" ELSE "insert"

IWEdit(w, c, key, last) ==
    LET b == IWBranch(key, last)
    IN  CASE b = "right"     -> IWRight(w, c)
          [] b = "left"      -> IWLeft(w, c)
          [] b = "backspace" -> IWBackspace(w, c)
          [] b = "insert"    -> IWInsert(w, c, key)
          [] OTHER           -> Effect(w, c, <<>>)

IWStart ==
    /\ prog = "input_write" /\ pc = "call"
    /\ term' = TermWrite(term, prompt \o edit)
    /\ written' = edit
    /\ curr' = Len(edit)
    /\ last_key' = NoKey
    /\ pc' = "loop"
    /\ UNCHANGED <<prog, prompt, edit, result, fault, selvars, dvars>>

IWKey(key) ==
    /\ prog = "input_write" /\ pc = "loop"
    /\ IWBranch(key, last_key) = "insert" => Len(written) < MaxLen
    /\ last_key' = key
    /\ IF key = ENTER
       THEN /\ term' = TermWrite(term, <<"NL">>)
            /\ result' = <<written>>
            /\ pc' = "returned"
            /\ UNCHANGED <<written, curr>>
       ELSE LET e == IWEdit(written, curr, key, last_key)
            IN  /\ written' = e.written
                /\ curr' = e.curr
                /\ term' = TermWrite(term, e.out)
                /\ UNCHANGED <<pc, result>>
    /\ UNCHANGED <<prog, prompt, edit, fault, selvars, dvars>>

-----------------------------------------------------------------------------
(* selection(options..., active, passive, wrap) *)

ABC == << <<"A">>, <<"B">>, <<"C">> >>
OptionLists == {<<>>, << <<"A">> >>, << <<"A", "A">>, <<"B">> >>, ABC}
Markers == {<<" ", ">">>, <<"-">>}
SelKeys == {ENTER, DOWN, UP, SPECIAL} \cup PlainKeys

\* len(max(xs, key=len)) of a non-empty list of strings
LongestLen(xs) == CHOOSE m \in {Len(xs[i]) : i \in 1..Len(xs)} :
                      \A i \in 1..Len(xs) : Len(xs[i]) <= m

longest_length == LongestLen(options) + LongestLen(<<passive, active>>)

RECURSIVE SelRestLines(_, _)
\* the loop writing "\n" + passive + str(option) for each of options[1:]
SelRestLines(opts, k) ==
    IF k > Len(opts) THEN <<>>
    ELSE <<"NL">> \o passive \o opts[k] \o SelRestLines(opts, k + 1)

\* the initial display, leaving the cursor on the first option's row
SelInitialRender ==
    active \o options[1] \o SelRestLines(options, 2) \o <<"CR">>
        \o Rep("UP", Len(options) - 1)

\* the part of a DOWN or UP branch that redraws the row being left as passive
SelResetRow(current) ==
    <<"CR">> \o Rep(" ", longest_length) \o <<"CR">>
        \o passive \o options[current + 1] \o <<"CR">>

\* SelDown wrapping whatever the wrap flag says
SelDownAlwaysWraps(i) ==
    LET n_options == Len(options)
        stepped   == Min(i + 1, n_options - 1)
    IN  IF stepped = i
        THEN [idx |-> 0, move |-> Rep("UP", n_options - 1)]
        ELSE [idx |-> stepped, move |-> ANSI_DOWN]

\* SelDown stopping at the last option whatever the wrap flag says
SelDownNeverWraps(i) ==
    LET stepped == Min(i + 1, Len(options) - 1)
    IN  [idx |-> stepped, move |-> IF stepped = i THEN <<>> ELSE ANSI_DOWN]

\* DOWN: the new index and the cursor move
SelDown(i) ==
    LET n_options == Len(options)
        stepped   == Min(i + 1, n_options - 1)
    IN  IF stepped = i
        THEN IF wrap /\ n_options > 1
             THEN [idx |-> 0, move |-> Rep("UP", n_options - 1)]
             ELSE [idx |-> stepped, move |-> <<>>]
        ELSE [idx |-> stepped, move |-> ANSI_DOWN]

\* UP: the new index and the cursor move
SelUp(i) ==
    LET n_options == Len(options)
        stepped   == Max(i - 1, 0)
    IN  IF stepped = i
        THEN IF wrap /\ n_options > 1
             THEN [idx |-> n_options - 1, move |-> Rep("DOWN", n_options - 1)]
             ELSE [idx |-> stepped, move |-> <<>>]
        ELSE [idx |-> stepped, move |-> ANSI_UP]

\* SelStart testing for options only after the first write
SelStartLateCheck ==
    /\ prog = "selection" /\ pc = "call"
    /\ IF options = <<>>
       THEN /\ term' = TermWrite(term, active)
            /\ fault' = "TypeError"
            /\ pc' = "raised"
       ELSE /\ term' = TermWrite(term, SelInitialRender)
            /\ pc' = "loop"
            /\ UNCHANGED fault
    /\ idx' = 0
    /\ UNCHANGED <<prog, result, edvars, options, active, passive, wrap, keys_read, dvars>>

SelStart ==
    /\ prog = "selection" /\ pc = "call"
    /\ IF options = <<>>
       THEN /\ fault' = "TypeError"
            /\ pc' = "raised"
            /\ UNCHANGED term
       ELSE /\ term' = TermWrite(term, SelInitialRender)
            /\ pc' = "loop"
            /\ UNCHANGED fault
    /\ idx' = 0
    /\ UNCHANGED <<prog, result, edvars, options, active, passive, wrap, keys_read, dvars>>

SelKey(key) ==
    /\ prog = "selection" /\ pc = "loop"
    /\ Len(keys_read) < MaxSelKeys
    /\ keys_read' = Append(keys_read, key)
    /\ CASE key = ENTER ->
              /\ term' = TermWrite(term, <<"NL">>)
              /\ result' = <<options[idx + 1]>>
              /\ pc' = "returned"
              /\ UNCHANGED idx
         [] key = DOWN ->
              LET d == SelDown(idx)
              IN  /\ idx' = d.idx
                  /\ term' = TermWrite(term, SelResetRow(idx) \o d.move
                                 \o active \o options[d.idx + 1] \o <<"CR">>)
                  /\ UNCHANGED <<pc, result>>
         [] key = UP ->
              LET u == SelUp(idx)
              IN  /\ idx' = u.idx
                  /\ term' = TermWrite(term, SelResetRow(idx) \o u.move
                                 \o active \o options[u.idx + 1] \o <<"CR">>)
                  /\ UNCHANGED <<pc, result>>
         [] OTHER -> UNCHANGED <<idx, term, pc, result>>
    /\ UNCHANGED <<prog, fault, edvars, options, active, passive, wrap, dvars>>

-----------------------------------------------------------------------------
(* class IODisplay *)

\* Python objects handed to push: a str, an int, or a list of these
StrObj(text) == [kind |-> "str", val |-> text]
IntObj(n) == [kind |-> "int", val |-> n]
ListObj(elems) == [kind |-> "list", val |-> elems]

RECURSIVE IntToStr(_)
\* str(n) of a non-negative int: its decimal digits
IntToStr(n) ==
    LET digit == <<"0", "1", "2", "3", "4", "5", "6", "7", "8", "9">>[(n % 10) + 1]
    IN  IF n < 10 THEN <<digit>> ELSE IntToStr(n \div 10) \o <<digit>>

\* str(o)
PyStr(o) == IF o.kind = "int" THEN IntToStr(o.val) ELSE o.val

\* isinstance(o, Iterable) and (not isinstance(o, str))
IsBatch(o) == o.kind = "list"

DisplayPrompts == {<<"?">>}
DisplayKeys == {ENTER, BACKSPACE, SPECIAL, RIGHT, LEFT} \cup PlainKeys
PushItems == {StrObj(<<"x">>), IntObj(7)}
\* the batches pushed: x, 7, x, ... cut to every length up to MaxPushed
PushBatches == {[i \in 1..k |-> IF i % 2 = 1 THEN StrObj(<<"x">>) ELSE IntObj(7)] :
                   k \in 0..MaxPushed}

\* one more call or key is given to the display
CountOp == ops < MaxOps /\ ops' = ops + 1

\* ["" for _ in range(lines)]
EmptyRegestry(n) == [i \in 1..n |-> <<>>]

RECURSIVE JoinLines(_)
\* "\n".join(rows)
JoinLines(rows) ==
    IF Len(rows) = 0 THEN <<>>
    ELSE IF Len(rows) = 1 THEN rows[1]
    ELSE rows[1] \o <<"NL">> \o JoinLines(Tail(rows))

RECURSIVE ClearRows(_)
\* the loop of _clear_lines: blank each element's width, then one row down
ClearRows(reg) ==
    IF reg = <<>> THEN <<>>
    ELSE Rep(" ", Len(reg[1])) \o <<"CR">> \o ANSI_DOWN \o ClearRows(Tail(reg))

\* ClearLines moving up one row too few
ClearLinesShortUp(reg, n) ==
    Rep("UP", Max(n - 1, 0)) \o <<"CR">> \o ClearRows(reg)

\* what _clear_lines writes
ClearLines(reg, n) == Rep("UP", n) \o <<"CR">> \o ClearRows(reg)

\* RenderLines moving up one row too few before it writes
RenderLinesShortUp(reg, n, pr, w, init) ==
    (IF init THEN <<>> ELSE Rep("UP", Max(n - 1, 0)) \o <<"CR">>)
        \o JoinLines(reg \o <<pr \o w>>)

\* what _render_lines writes
RenderLines(reg, n, pr, w, init) ==
    (IF init THEN <<>> ELSE Rep("UP", n) \o <<"CR">>)
        \o JoinLines(reg \o <<pr \o w>>)

\* DGet leaving the buffer as it is when it dispatches
DGetKeepsText(w, dispatch) ==
    IF dispatch /\ w /= <<>>
    THEN [string |-> w, written |-> w,
          out |-> Rep(" ", Len(w)) \o Rep("LEFT", Len(w))]
    ELSE [string |-> w, written |-> w, out |-> <<>>]

\* get(dispatch): the text, the buffer left behind and what is written
DGet(w, dispatch) ==
    IF dispatch /\ w /= <<>>
    THEN [string |-> w, written |-> <<>>,
          out |-> Rep(" ", Len(w)) \o Rep("LEFT", Len(w))]
    ELSE [string |-> w, written |-> w, out |-> <<>>]

\* PushSingle popping the newest entry instead of the oldest
PushSinglePopsBack(reg, o) == SubSeq(Append(reg, PyStr(o)), 1, Len(reg))

\* push: the single-value branch, append then pop(0)
PushSingle(reg, o) == Tail(Append(reg, PyStr(o)))

\* PushBatch cutting one entry too few off the front
PushBatchCutsShort(reg, o) ==
    LET extended == reg \o [i \in 1..Len(o.val) |-> PyStr(o.val[i])]
    IN  Slice(extended, Len(o.val) - 1, Len(extended))

\* push: the batch branch, extend then cut len(o) entries off the front
PushBatch(reg, o) ==
    LET extended == reg \o [i \in 1..Len(o.val) |-> PyStr(o.val[i])]
    IN  Slice(extended, Len(o.val), Len(extended))

PushRegestry(reg, o) == IF IsBatch(o) THEN PushBatch(reg, o) ELSE PushSingle(reg, o)

\* the strings one push adds, for the history
PushedStrings(o) ==
    IF IsBatch(o) THEN [i \in 1..Len(o.val) |-> PyStr(o.val[i])] ELSE <<PyStr(o)>>

DRight(w, c) ==
    IF c < Len(w) THEN Effect(w, c + 1, ANSI_RIGHT) ELSE Effect(w, c, <<>>)

DLeft(w, c) ==
    IF c > 0 THEN Effect(w, c - 1, ANSI_LEFT) ELSE Effect(w, c, <<>>)

\* DBackspace without the test of the cursor against the left end
DBackspaceNoLeftEnd(w, c) ==
    IF w /= <<>>
    THEN LET rest == Slice(w, c, Len(w))
             c1   == Max(0, c - 1)
         IN  Effect(IF PopFaults(w, c1) THEN w ELSE PopAt(w, c1), c1,
                    ANSI_LEFT \o rest \o <<" ">> \o CSILeft(Len(rest) + 1))
    ELSE Effect(w, c, <<>>)

\* Backspace: what is written and the cursor; the buffer is popped unless pop faults
DBackspace(w, c) ==
    IF w /= <<>> /\ ~(c <= 0)
    THEN LET size == Len(w)
             rest == Slice(w, c, size)
             n    == Len(rest) + 1
             c1   == Max(0, c - 1)
         IN  Effect(IF PopFaults(w, c1) THEN w ELSE PopAt(w, c1), c1,
                    ANSI_LEFT \o rest \o <<" ">> \o CSILeft(n))
    ELSE Effect(w, c, <<>>)

\* self._written.pop(curr) raises IndexError
DBackspaceFaults(w, c) ==
    w /= <<>> /\ ~(c <= 0) /\ PopFaults(w, Max(0, c - 1))

DInsert(w, c, key) ==
    LET letter == Decode(key)
        w1     == InsertAt(w, c, letter)
        c1     == c + 1
        size   == Len(w1)
        rest   == Slice(w1, c1, size)
        n      == size - c1
    IN  Effect(w1, c1,
               <<letter>> \o rest \o (IF n > 0 THEN CSILeft(n) ELSE <<>>))

\* Enter: cursor back to the start of the text, then get(dispatch_on_enter)
DEnter(w, c) ==
    LET g == DGet(w, dispatch_on_enter)
    IN  Effect(g.written, 0, (IF c /= 0 THEN Rep("LEFT", c) ELSE <<>>) \o g.out)

DBranch(key, last) ==
    CASE key = ENTER                     -> "enter"
      [] key = RIGHT /\ last = SPECIAL   -> "right"
      [] key = LEFT /\ last = SPECIAL    -> "left"
      [] key = BACKSPACE                 -> "backspace"
      [] OTHER -> IF key = SPECIAL \/ (key \in IGNORE /\ last = SPECIAL)
                  THEN "skip" ELSE "insert"

DEdit(w, c, key, last) ==
    LET b == DBranch(key, last)
    IN  CASE b = "enter"     -> DEnter(w, c)
          [] b = "right"     -> DRight(w, c)
          [] b = "left"      -> DLeft(w, c)
          [] b = "backspace" -> DBackspace(w, c)
          [] b = "insert"    -> DInsert(w, c, key)
          [] OTHER           -> Effect(w, c, <<>>)

\* the state a stop() call is compared on
StopView == [running |-> running, thread |-> thread, regestry |-> regestry,
             written |-> written, scr |-> term.scr, row |-> term.row]

\* any call other than stop() ends a run of stop() calls
NoStopRun == stops' = 0 /\ snap' = <<>>

\* _start up to the loop: what it assigns and writes
StartPrologue ==
    /\ running' = TRUE
    /\ term' = TermWrite(term, RenderLines(regestry, lines, prompt, written, TRUE))
    /\ curr' = 0
    /\ last_key' = NoKey
    /\ wpc' = "loop"

\* start(threaded=th): _start runs on a new thread, or at once on the caller's own
DStart(th) ==
    /\ prog = "display" /\ pc = "call"
    /\ UNCHANGED hvars
    /\ UNCHANGED ops
    /\ thread' = IF th THEN "thread" ELSE "none"
    /\ IF th
       THEN wpc' = "start" /\ UNCHANGED <<running, term, curr, last_key>>
       ELSE StartPrologue
    /\ pc' = "idle"
    /\ NoStopRun
    /\ UNCHANGED <<prog, result, fault, prompt, edit, written, selvars, cfgvars,
                   regestry, stop_dispatch, pushed>>

\* the new thread runs _start up to the loop
WStart ==
    /\ prog = "display" /\ wpc = "start"
    /\ UNCHANGED hvars
    /\ UNCHANGED ops
    /\ StartPrologue
    /\ UNCHANGED <<prog, pc, result, fault, prompt, edit, written, selvars,
                   cfgvars, regestry, thread, stop_dispatch, pushed, stops, snap>>

\* one turn of the loop of _start with a key pending (Enter: no handler to call)
DKey(key) ==
    /\ prog = "display" /\ wpc = "loop" /\ running
    /\ UNCHANGED hvars
    /\ key = ENTER => callback = "none"
    /\ CountOp
    /\ DBranch(key, last_key) = "insert"
           => (Len(written) < MaxLen /\ curr < MaxLen)
    /\ LET e == DEdit(written, curr, key, last_key)
       IN  /\ written' = e.written
           /\ curr' = e.curr
           /\ term' = TermWrite(term, e.out)
    /\ last_key' = IF key = ENTER THEN NoKey ELSE key
    /\ IF key = BACKSPACE /\ DBackspaceFaults(written, curr)
       THEN wpc' = "faulted" /\ fault' = "IndexError"
       ELSE UNCHANGED <<wpc, fault>>
    /\ UNCHANGED <<prog, pc, result, prompt, edit, selvars, cfgvars, running,
                   regestry, thread, stop_dispatch, pushed, stops, snap>>

\* the loop of _start finds _running false and _start returns
WExit ==
    /\ prog = "display" /\ wpc = "loop" /\ ~running
    /\ UNCHANGED hvars
    /\ UNCHANGED ops
    /\ wpc' = "exited"
    /\ UNCHANGED <<prog, pc, term, result, fault, edvars, selvars, cfgvars,
                   running, regestry, thread, stop_dispatch, pushed, stops, snap>>

\* a stop(dispatch=d) call returns: the history of the run of stop() calls
StopReturns(d) ==
    IF stops >= 1 /\ snap[1].dispatch = d
    THEN stops' = Min(stops + 1, 2) /\ UNCHANGED snap
    ELSE stops' = 1 /\ snap' = <<[dispatch |-> d, view |-> StopView']>>

\* stop(dispatch=d) up to join(), and to its end when there is no thread
DStop(d) ==
    /\ prog = "display" /\ pc \in {"call", "idle"} /\ cpush.pc = "idle"
    /\ UNCHANGED hvars
    /\ CountOp
    /\ running' = FALSE
    /\ UNCHANGED <<prog, result, fault, edvars, selvars, cfgvars, regestry,
                   wpc, pushed>>
    /\ IF thread /= "none"
       THEN /\ pc' = "joining"
            /\ stop_dispatch' = d
            /\ UNCHANGED <<term, thread, stops, snap>>
       ELSE /\ term' = IF d THEN TermWrite(term, ClearLines(regestry, lines))
                       ELSE term
            /\ UNCHANGED <<pc, thread, stop_dispatch>>
            /\ StopReturns(d)

\* join() returns once the thread has ended, and stop() runs to its end
DStopJoined ==
    /\ prog = "display" /\ pc = "joining"
    /\ UNCHANGED hvars
    /\ UNCHANGED ops
    /\ wpc \in {"exited", "faulted"}
    /\ thread' = "none"
    /\ term' = IF stop_dispatch THEN TermWrite(term, ClearLines(regestry, lines))
                ELSE term
    /\ pc' = "idle"
    /\ UNCHANGED <<prog, result, fault, edvars, selvars, cfgvars, running,
                   regestry, wpc, stop_dispatch, pushed>>
    /\ StopReturns(stop_dispatch)

\* push(o): what it does to the registry, whatever it writes
DPushRegestry(o) ==
    /\ prog = "display" /\ pc \in {"call", "idle"}
    /\ UNCHANGED hvars
    /\ CountOp
    /\ Len(pushed) + Len(PushedStrings(o)) <= MaxPushed
    /\ regestry' = PushRegestry(regestry, o)
    /\ pushed' = pushed \o PushedStrings(o)
    /\ NoStopRun
    /\ UNCHANGED <<prog, pc, result, fault, edvars, selvars, cfgvars, running,
                   thread, wpc, stop_dispatch>>

\* push(o, flush=fl)
DPush(o, fl) ==
    /\ DPushRegestry(o)
    /\ term' = TermWrite(term,
                   ClearLines(regestry, lines)
                   \o (IF fl THEN RenderLines(regestry', lines, prompt, written, FALSE)
                       ELSE <<>>))

\* clear(flush=fl)
DClear(fl) ==
    /\ prog = "display" /\ pc \in {"call", "idle"}
    /\ UNCHANGED hvars
    /\ CountOp
    /\ regestry' = EmptyRegestry(lines)
    /\ term' = TermWrite(term,
                   ClearLines(regestry, lines)
                   \o (IF fl THEN RenderLines(regestry', lines, prompt, written, FALSE)
                       ELSE <<>>))
    /\ pushed' = <<>>
    /\ NoStopRun
    /\ UNCHANGED <<prog, pc, result, fault, edvars, selvars, cfgvars, running,
                   thread, wpc, stop_dispatch>>

\* get(dispatch=d) called from outside the key loop; the text it returns,
\* DGet(written, d).string, is not kept in the state
DGetCall(d) ==
    /\ prog = "display" /\ pc \in {"call", "idle"}
    /\ UNCHANGED hvars
    /\ CountOp
    /\ LET g == DGet(written, d)
       IN  /\ written' = g.written
           /\ term' = TermWrite(term, g.out)
    /\ NoStopRun
    /\ UNCHANGED <<prog, pc, result, fault, prompt, edit, curr, last_key, selvars,
                   cfgvars, running, regestry, thread, wpc, stop_dispatch, pushed>>

-----------------------------------------------------------------------------

\* no second key loop
NoWorker == [wpc |-> "none", curr |-> 0, last_key |-> NoKey]
\* no push() under way
NoPush == [pc |-> "idle", o |-> <<>>, tmp |-> <<>>]

NoDisplay ==
    /\ lines = 0 /\ dispatch_on_enter = FALSE /\ regestry = <<>>

InitWrite ==
    /\ prog = "input_write"
    /\ NoDisplay
    /\ prompt \in Prompts
    /\ edit \in Edits
    /\ written = <<>>
    /\ curr = 0
    /\ last_key = NoKey
    /\ options = <<>> /\ active = <<>> /\ passive = <<>> /\ wrap = FALSE
    /\ idx = 0 /\ keys_read = <<>>

InitSelection ==
    /\ prog = "selection"
    /\ NoDisplay
    /\ options \in OptionLists
    /\ active \in Markers
    /\ passive \in Markers
    /\ wrap \in BOOLEAN
    /\ idx = 0
    /\ keys_read = <<>>
    /\ prompt = <<>> /\ edit = <<>> /\ written = <<>> /\ curr = 0
    /\ last_key = NoKey

\* IODisplay.__init__(prompt, lines, dispatch_on_enter)
InitDisplay ==
    /\ prog = "display"
    /\ prompt \in DisplayPrompts
    /\ lines \in 1..MaxLines
    /\ dispatch_on_enter \in BOOLEAN
    /\ regestry = EmptyRegestry(lines)
    /\ edit = <<>> /\ written = <<>> /\ curr = 0 /\ last_key = NoKey
    /\ options = <<>> /\ active = <<>> /\ passive = <<>> /\ wrap = FALSE
    /\ idx = 0 /\ keys_read = <<>>

Init ==
    /\ pc = "call"
    /\ term = BlankTerm
    /\ result = <<>>
    /\ fault = ""
    /\ running = FALSE
    /\ thread = "none"
    /\ wpc = "none"
    /\ stop_dispatch = FALSE
    /\ pushed = <<>>
    /\ stops = 0
    /\ snap = <<>>
    /\ ops = 0
    /\ orphan = NoWorker
    /\ callback = "none"
    /\ string = <<>>
    /\ hpush = NoPush
    /\ cpush = NoPush
    /\ (InitWrite \/ InitSelection \/ InitDisplay)

Next ==
    \/ IWStart
    \/ \E key \in EditKeys : IWKey(key)
    \/ SelStart
    \/ \E key \in SelKeys : SelKey(key)
    \/ \E th \in BOOLEAN : DStart(th)
    \/ WStart
    \/ \E key \in DisplayKeys : DKey(key)
    \/ WExit
    \/ \E d \in BOOLEAN : DStop(d)
    \/ DStopJoined
    \/ \E o \in PushItems, fl \in BOOLEAN : DPush(o, fl)
    \/ \E b \in PushBatches, fl \in BOOLEAN : DPush(ListObj(b), fl)
    \/ \E fl \in BOOLEAN : DClear(fl)
    \/ \E d \in BOOLEAN : DGetCall(d)

Spec == Init /\ [][Next]_vars

-----------------------------------------------------------------------------
(* start(threaded=True) called on a display that has been started before *)

\* the key loop of the thread _thread refers to, as start() leaves it behind
Orphaned == [wpc |-> wpc, curr |-> curr, last_key |-> last_key]

\* start(threaded=True) once more: _thread is rebound to a new Thread, and a
\* thread it referred to runs on without a reference (two key loops at most)
DStartAgain ==
    /\ prog = "display" /\ pc = "idle"
    /\ wpc \notin {"start", "loop"} \/ orphan.wpc \notin {"start", "loop"}
    /\ orphan' = IF wpc \in {"start", "loop"} THEN Orphaned ELSE orphan
    /\ thread' = "thread"
    /\ wpc' = "start"
    /\ NoStopRun
    /\ UNCHANGED <<prog, pc, term, result, fault, edvars, selvars, cfgvars,
                   running, regestry, stop_dispatch, pushed, ops,
                   callback, string, hpush, cpush>>

\* the unreferenced thread runs _start up to the loop
OStart ==
    /\ prog = "display" /\ orphan.wpc = "start"
    /\ running' = TRUE
    /\ term' = TermWrite(term, RenderLines(regestry, lines, prompt, written, TRUE))
    /\ orphan' = [wpc |-> "loop", curr |-> 0, last_key |-> NoKey]
    /\ UNCHANGED <<prog, pc, result, fault, edvars, selvars, cfgvars, regestry,
                   thread, wpc, stop_dispatch, pushed, stops, snap, ops,
                   callback, string, hpush, cpush>>

\* one turn of the unreferenced thread's loop with a key pending
OKey(key) ==
    /\ prog = "display" /\ orphan.wpc = "loop" /\ running
    /\ CountOp
    /\ DBranch(key, orphan.last_key) = "insert"
           => (Len(written) < MaxLen /\ orphan.curr < MaxLen)
    /\ LET e == DEdit(written, orphan.curr, key, orphan.last_key)
           faults == key = BACKSPACE /\ DBackspaceFaults(written, orphan.curr)
       IN  /\ written' = e.written
           /\ term' = TermWrite(term, e.out)
           /\ orphan' = [wpc |-> IF faults THEN "faulted" ELSE "loop",
                         curr |-> e.curr,
                         last_key |-> IF key = ENTER THEN NoKey ELSE key]
           /\ fault' = IF faults THEN "IndexError" ELSE fault
    /\ UNCHANGED <<prog, pc, result, prompt, edit, curr, last_key, selvars,
                   cfgvars, running, regestry, thread, wpc, stop_dispatch,
                   pushed, stops, snap, callback, string, hpush, cpush>>

\* the unreferenced thread's loop finds _running false and _start returns
OExit ==
    /\ prog = "display" /\ orphan.wpc = "loop" /\ ~running
    /\ orphan' = [orphan EXCEPT !.wpc = "exited"]
    /\ UNCHANGED <<prog, pc, term, result, fault, edvars, selvars, cfgvars,
                   running, regestry, thread, wpc, stop_dispatch, pushed,
                   stops, snap, ops, callback, string, hpush, cpush>>

RestartInit == Init /\ prog = "display"

RestartNext ==
    \/ DStart(TRUE)
    \/ DStartAgain
    \/ WStart
    \/ OStart
    \/ \E key \in DisplayKeys : DKey(key)
    \/ \E key \in DisplayKeys : OKey(key)
    \/ WExit
    \/ OExit
    \/ \E d \in BOOLEAN : DStop(d)
    \/ DStopJoined

\* any sequence of start(threaded=True) and stop() calls, with keys typed
RestartSpec == RestartInit /\ [][RestartNext]_vars

-----------------------------------------------------------------------------
(* start(threaded=True) and stop() against the new thread's own startup *)

StopNext ==
    \/ DStart(TRUE)
    \/ WStart
    \/ \E key \in DisplayKeys : DKey(key)
    \/ WExit
    \/ \E d \in BOOLEAN : DStop(d)
    \/ DStopJoined

\* the started thread is scheduled, and join() returns once the thread has
\* ended; the user need not type and the caller need not call
FairStopSpec ==
    /\ RestartInit /\ [][StopNext]_vars
    /\ WF_vars(WStart) /\ WF_vars(WExit) /\ WF_vars(DStopJoined)

-----------------------------------------------------------------------------
(* start(threaded=True, callback=handler): Enter calls the handler *)

\* what the handler does when it is called ("pushes": it calls push, below)
HandlerKinds == {"returns", "raises"}

\* start(threaded=True, callback=h)
HStart(h) ==
    /\ prog = "display" /\ pc = "call"
    /\ callback' = h
    /\ thread' = "thread"
    /\ wpc' = "start"
    /\ pc' = "idle"
    /\ NoStopRun
    /\ UNCHANGED <<prog, term, result, fault, edvars, selvars, cfgvars, running,
                   regestry, stop_dispatch, pushed, ops, orphan, string,
                   hpush, cpush>>

\* Enter with a handler: the cursor back to the start of the text, get(), and
\* the handler is entered with the text get() returned
HEnter ==
    /\ prog = "display" /\ wpc = "loop" /\ running
    /\ callback /= "none"
    /\ CountOp
    /\ LET e == DEnter(written, curr)
       IN  /\ written' = e.written
           /\ term' = TermWrite(term, e.out)
    /\ string' = DGet(written, dispatch_on_enter).string
    /\ last_key' = ENTER
    /\ wpc' = "callback"
    /\ UNCHANGED <<prog, pc, result, fault, prompt, edit, curr, selvars, cfgvars,
                   running, regestry, thread, stop_dispatch, pushed, stops, snap,
                   orphan, callback, hpush, cpush>>

\* the handler returns, and the Enter branch resets curr and last_key
HReturn ==
    /\ prog = "display" /\ wpc = "callback"
    /\ callback = "returns" \/ (callback = "pushes" /\ hpush.pc = "done")
    /\ hpush' = NoPush
    /\ curr' = 0
    /\ last_key' = NoKey
    /\ wpc' = "loop"
    /\ UNCHANGED <<prog, pc, term, result, fault, prompt, edit, written, selvars,
                   cfgvars, running, regestry, thread, stop_dispatch, pushed,
                   stops, snap, ops, orphan, callback, string, cpush>>

\* the handler raises: the exception ends _start and with it the thread
HRaise ==
    /\ prog = "display" /\ wpc = "callback" /\ callback = "raises"
    /\ fault' = "HandlerError"
    /\ wpc' = "faulted"
    /\ UNCHANGED <<prog, pc, term, result, edvars, selvars, cfgvars, running,
                   regestry, thread, stop_dispatch, pushed, stops, snap, ops,
                   hvars>>

\* push(o), statement by statement, in a context whose position is p
\* _clear_lines and the first statement on the registry: extend, or append
PushBegins(p, o) ==
    IF IsBatch(o)
    THEN [p   |-> [pc |-> "extended", o |-> o, tmp |-> <<>>],
          reg |-> regestry \o PushedStrings(o),
          out |-> ClearLines(regestry, lines)]
    ELSE [p   |-> [pc |-> "appended", o |-> o, tmp |-> <<>>],
          reg |-> Append(regestry, PyStr(o)),
          out |-> ClearLines(regestry, lines)]

\* the next statement: the slice self._regestry[len(o):] is taken; the slice
\* is stored in self._regestry; or pop(0). The last of them is followed by
\* _render_lines (flush is left at its default)
PushGoesOn(p) ==
    CASE p.pc = "extended" ->
            [p   |-> [p EXCEPT !.pc = "sliced",
                               !.tmp = Slice(regestry, Len(p.o.val), Len(regestry))],
             reg |-> regestry, out |-> <<>>]
      [] p.pc = "sliced" ->
            [p   |-> [p EXCEPT !.pc = "done", !.tmp = <<>>],
             reg |-> p.tmp,
             out |-> RenderLines(p.tmp, lines, prompt, written, FALSE)]
      [] p.pc = "appended" ->
            IF PopFaults(regestry, 0)
            THEN [p |-> [p EXCEPT !.pc = "raised"], reg |-> regestry, out |-> <<>>]
            ELSE [p   |-> [p EXCEPT !.pc = "done"],
                  reg |-> PopAt(regestry, 0),
                  out |-> RenderLines(PopAt(regestry, 0), lines, prompt,
                                      written, FALSE)]

\* what the handler pushes: the text it was called with, alone or in a list
HandlerPushes == {StrObj(string), ListObj(<<StrObj(string)>>)}
\* what the caller pushes meanwhile
CallerPushes == PushItems \cup {ListObj(b) : b \in PushBatches \ {<<>>}}

\* the handler calls push(o)
HPushBegin(o) ==
    /\ prog = "display" /\ wpc = "callback" /\ callback = "pushes"
    /\ hpush.pc = "idle"
    /\ Len(pushed) + Len(PushedStrings(o)) <= MaxPushed
    /\ LET b == PushBegins(hpush, o)
       IN  /\ hpush' = b.p
           /\ regestry' = b.reg
           /\ term' = TermWrite(term, b.out)
    /\ pushed' = pushed \o PushedStrings(o)
    /\ UNCHANGED <<prog, pc, result, fault, edvars, selvars, cfgvars, running,
                   thread, wpc, stop_dispatch, stops, snap, ops,
                   orphan, callback, string, cpush>>

\* the handler's push executes its next statement; an IndexError of pop(0)
\* leaves the handler and ends the thread
HPushStep ==
    /\ prog = "display" /\ wpc = "callback"
    /\ hpush.pc \in {"extended", "sliced", "appended"}
    /\ LET n == PushGoesOn(hpush)
       IN  /\ hpush' = n.p
           /\ regestry' = n.reg
           /\ term' = TermWrite(term, n.out)
           /\ wpc' = IF n.p.pc = "raised" THEN "faulted" ELSE wpc
           /\ fault' = IF n.p.pc = "raised" THEN "IndexError" ELSE fault
    /\ UNCHANGED <<prog, pc, result, edvars, selvars, cfgvars, running,
                   thread, stop_dispatch, pushed, stops, snap, ops,
                   orphan, callback, string, cpush>>

\* the caller calls push(o) while the display runs
CPushBegin(o) ==
    /\ prog = "display" /\ pc = "idle" /\ cpush.pc = "idle"
    /\ CountOp
    /\ Len(pushed) + Len(PushedStrings(o)) <= MaxPushed
    /\ LET b == PushBegins(cpush, o)
       IN  /\ cpush' = b.p
           /\ regestry' = b.reg
           /\ term' = TermWrite(term, b.out)
    /\ pushed' = pushed \o PushedStrings(o)
    /\ NoStopRun
    /\ UNCHANGED <<prog, pc, result, fault, edvars, selvars, cfgvars, running,
                   thread, wpc, stop_dispatch, orphan, callback, string, hpush>>

\* the caller's push executes its next statement
CPushStep ==
    /\ prog = "display" /\ cpush.pc \in {"extended", "sliced", "appended"}
    /\ LET n == PushGoesOn(cpush)
       IN  /\ cpush' = n.p
           /\ regestry' = n.reg
           /\ term' = TermWrite(term, n.out)
    /\ UNCHANGED <<prog, pc, result, fault, edvars, selvars, cfgvars, running,
                   thread, wpc, stop_dispatch, pushed, stops, snap, ops,
                   orphan, callback, string, hpush>>

\* the caller's push returns, or has raised
CPushReturn ==
    /\ prog = "display" /\ cpush.pc \in {"done", "raised"}
    /\ cpush' = NoPush
    /\ UNCHANGED <<prog, pc, term, result, fault, edvars, selvars, cfgvars,
                   running, regestry, thread, wpc, stop_dispatch, pushed,
                   stops, snap, ops, orphan, callback, string, hpush>>

HandlerNext ==
    \/ \E h \in HandlerKinds : HStart(h)
    \/ WStart
    \/ \E key \in DisplayKeys \ {ENTER} : DKey(key)
    \/ HEnter
    \/ HReturn
    \/ HRaise
    \/ WExit
    \/ \E d \in BOOLEAN : DStop(d)
    \/ DStopJoined

\* a threaded display with a handler: keys typed, and calls from outside
HandlerSpec == RestartInit /\ [][HandlerNext]_vars

PushRaceNext ==
    \/ HStart("pushes")
    \/ WStart
    \/ \E key \in PlainKeys : DKey(key)
    \/ HEnter
    \/ \E o \in HandlerPushes : HPushBegin(o)
    \/ HPushStep
    \/ \E o \in CallerPushes : CPushBegin(o)
    \/ CPushStep
    \/ CPushReturn
    \/ HReturn

\* a threaded display whose handler pushes, while the caller pushes too
PushRaceSpec == RestartInit /\ [][PushRaceNext]_vars

-----------------------------------------------------------------------------
(* A display given keys, and push and clear calls with flush=True *)

FlushNext ==
    \/ \E th \in BOOLEAN : DStart(th)
    \/ WStart
    \/ \E key \in DisplayKeys : DKey(key)
    \/ \E o \in PushItems : DPush(o, TRUE)
    \/ \E b \in PushBatches : DPush(ListObj(b), TRUE)
    \/ DClear(TRUE)

FlushSpec == RestartInit /\ [][FlushNext]_vars

-----------------------------------------------------------------------------
(* start(callback=handler) with a handler that calls stop() on the display *)

\* start(threaded=th, callback=handler), the handler calling stop(): on a new
\* thread, or with the caller inside _start until the loop ends
HStartStopping(th) ==
    /\ prog = "display" /\ pc = "call"
    /\ callback' = "stops"
    /\ thread' = IF th THEN "thread" ELSE "none"
    /\ IF th
       THEN wpc' = "start" /\ pc' = "idle"
            /\ UNCHANGED <<running, term, curr, last_key>>
       ELSE StartPrologue /\ pc' = "blocked"
    /\ NoStopRun
    /\ UNCHANGED <<prog, result, fault, prompt, edit, written, selvars, cfgvars,
                   regestry, stop_dispatch, pushed, ops, orphan, string,
                   hpush, cpush>>

\* the handler calls stop(dispatch=d) in the context that runs the key loop.
\* _thread is that context's own thread when there is one: Thread.join() on the
\* current thread raises RuntimeError, which leaves stop(), the handler and
\* _start.  Without a thread stop() runs to its end.
HStop(d) ==
    /\ prog = "display" /\ wpc = "callback" /\ callback = "stops"
    /\ CountOp
    /\ running' = FALSE
    /\ UNCHANGED <<prog, pc, result, edvars, selvars, cfgvars, regestry, thread,
                   stop_dispatch, pushed, hvars>>
    /\ IF thread /= "none"
       THEN /\ fault' = "RuntimeError"
            /\ wpc' = "faulted"
            /\ UNCHANGED term
            /\ NoStopRun
       ELSE /\ term' = IF d THEN TermWrite(term, ClearLines(regestry, lines))
                       ELSE term
            /\ wpc' = "stopped"
            /\ UNCHANGED fault
            /\ StopReturns(d)

\* the handler returns after its stop() call returned, and the Enter branch
\* resets curr and last_key
HStopReturn ==
    /\ prog = "display" /\ wpc = "stopped"
    /\ curr' = 0
    /\ last_key' = NoKey
    /\ wpc' = "loop"
    /\ UNCHANGED <<prog, pc, term, result, fault, prompt, edit, written, selvars,
                   cfgvars, running, regestry, thread, stop_dispatch, pushed,
                   stops, snap, ops, hvars>>

\* start(threaded=False) ends when _start has ended
HStartReturns ==
    /\ prog = "display" /\ pc = "blocked"
    /\ wpc \in {"exited", "faulted"}
    /\ pc' = "idle"
    /\ UNCHANGED <<prog, term, result, fault, edvars, selvars, dvars>>

HandlerStopNext ==
    \/ \E th \in BOOLEAN : HStartStopping(th)
    \/ WStart
    \/ \E key \in DisplayKeys \ {ENTER} : DKey(key)
    \/ HEnter
    \/ \E d \in BOOLEAN : HStop(d)
    \/ HStopReturn
    \/ WExit
    \/ HStartReturns

\* a display, threaded or not, whose handler stops it
HandlerStopSpec == RestartInit /\ [][HandlerStopNext]_vars

-----------------------------------------------------------------------------
(* C1: in input_write the cursor index stays within the buffer,           *)
(* 0 <= curr <= len(written), after every key event.                       *)
C1_CursorInBounds ==
    prog = "input_write" => (0 <= curr /\ curr <= Len(written))

\* a Backspace in the middle of the text has brought the cursor to the left end
C1_Witness ==
    /\ prog = "input_write" /\ pc = "loop"
    /\ last_key = BACKSPACE /\ curr = 0 /\ Len(written) = 1

(* C2: in input_write, after every processed key the terminal's cursor     *)
(* column is len(prompt) + curr.                                           *)
C2_ColumnFollowsCursor ==
    (prog = "input_write" /\ pc = "loop") => term.col = Len(prompt) + curr

\* a letter has been inserted at the end of the text, behind a prompt
C2_Witness ==
    /\ prog = "input_write" /\ pc = "loop"
    /\ last_key \in PlainKeys /\ curr = Len(written) /\ curr = MaxLen
    /\ prompt /= <<>>

(* C3: in a running threaded IODisplay, under every interleaving of key    *)
(* events with get(dispatch=True) calls from outside, the loop's cursor     *)
(* index satisfies 0 <= curr <= len(_written).                              *)
C3_CursorInBuffer ==
    (prog = "display" /\ thread = "thread")
        => (0 <= curr /\ curr <= Len(written))

(* C4: Backspace with an empty buffer or with the cursor at 0 changes       *)
(* neither the buffer nor the cursor and writes nothing, in input_write and *)
(* in the IODisplay key loop.                                               *)
C4_BackspaceNoOp ==
    [][((IWKey(BACKSPACE) \/ DKey(BACKSPACE)) /\ (written = <<>> \/ curr = 0))
          => UNCHANGED <<written, curr, term>>]_vars

\* Backspace was the first key of a display that has just been started
C4_Witness ==
    /\ prog = "display" /\ wpc = "loop" /\ ops = 1
    /\ last_key = BACKSPACE /\ written = <<>>

\* the transition function of the menu's index, as the design states it
RefDown(i, n, w) == IF i < n - 1 THEN i + 1 ELSE IF w THEN 0 ELSE i
RefUp(i, n, w) == IF i > 0 THEN i - 1 ELSE IF w THEN n - 1 ELSE i

(* C5: the menu's index follows the reference transition function on Down  *)
(* and Up for every number of options and both wrap settings, and          *)
(* 0 <= idx < n in every state of a menu that is shown.                    *)
C5_IndexFollowsReference ==
    /\ []((prog = "selection" /\ pc \in {"loop", "returned"})
              => (0 <= idx /\ idx < Len(options)))
    /\ [][(SelKey(DOWN) => idx' = RefDown(idx, Len(options), wrap))
            /\ (SelKey(UP) => idx' = RefUp(idx, Len(options), wrap))]_vars

\* Down was pressed on the last of several options without wrap: the index stayed
C5_Witness ==
    /\ prog = "selection" /\ pc = "loop" /\ ~wrap
    /\ Len(options) = 3 /\ idx = 2
    /\ keys_read = <<DOWN, DOWN, DOWN>>

(* C6 as stated: over A, B, C with wrap=True, Down, Down, Down from index  *)
(* 0 gives index 2 and one further Down gives index 0.                     *)
C6_AsStated ==
    (prog = "selection" /\ options = ABC /\ wrap)
        => /\ keys_read = <<DOWN, DOWN, DOWN>> => idx = 2
           /\ keys_read = <<DOWN, DOWN, DOWN, DOWN>> => idx = 0

(* C6 amended: over A, B, C with wrap=True, Down, Down from index 0 gives  *)
(* index 2 and one further Down gives index 0.                             *)
C6_Amended ==
    (prog = "selection" /\ options = ABC /\ wrap)
        => /\ keys_read = <<DOWN, DOWN>> => idx = 2
           /\ keys_read = <<DOWN, DOWN, DOWN>> => idx = 0

\* the third Down has been handled in the wrapping menu over A, B, C
C6_Witness ==
    /\ prog = "selection" /\ options = ABC /\ wrap
    /\ keys_read = <<DOWN, DOWN, DOWN>>

(* C7: selection with no option fails with the TypeError before anything   *)
(* is written to the terminal and before any key is read.                  *)
C7_NoOptionsFailsFirst ==
    (prog = "selection" /\ options = <<>>)
        => /\ pc \in {"call", "raised"}
           /\ term = BlankTerm
           /\ keys_read = <<>>
           /\ result = <<>>
           /\ (pc = "raised" <=> fault = "TypeError")

\* the call without options has raised
C7_Witness ==
    prog = "selection" /\ options = <<>> /\ pc = "raised"

\* the last n entries of a list
LastN(s, n) == SubSeq(s, Len(s) - n + 1, Len(s))

(* C8: after any sequence of completed pushes and clears the registry has   *)
(* exactly `lines` entries and holds the last `lines` strings pushed since  *)
(* the most recent clear, oldest first, padded at the front with "".        *)
C8_RegistryIsLastPushed ==
    prog = "display"
        => /\ Len(regestry) = lines
           /\ regestry = LastN(EmptyRegestry(lines) \o pushed, lines)

\* three lines went into a registry of two: the oldest is gone
C8_Witness ==
    /\ prog = "display" /\ lines = 2 /\ ops = 3
    /\ pushed = << <<"x">>, <<"7">>, <<"x">> >>
    /\ regestry = << <<"7">>, <<"x">> >>

RECURSIVE SinglePushes(_, _)
\* the registry after one single-value push per item, in order
SinglePushes(reg, items) ==
    IF items = <<>> THEN reg
    ELSE SinglePushes(PushSingle(reg, Head(items)), Tail(items))

(* C9: a push of a batch of k lines leaves the registry as k single pushes  *)
(* of the same lines would, for every k including k above the capacity,     *)
(* with the length kept at the capacity; a single value evicts exactly one. *)
C9_BatchIsSinglePushes ==
    [][/\ \A b \in PushBatches :
            DPushRegestry(ListObj(b))
                => /\ regestry' = SinglePushes(regestry, b)
                   /\ Len(regestry') = lines
       /\ \A o \in PushItems :
            DPushRegestry(o)
                => regestry' = Slice(regestry \o <<PyStr(o)>>, 1, lines + 1)]_vars

\* one call has pushed more lines than the registry's capacity
C9_Witness ==
    /\ prog = "display" /\ ops = 1 /\ lines = 2
    /\ Len(pushed) = 3
    /\ regestry = << <<"7">>, <<"x">> >>

(* C10: a second stop() right after a first, with the same dispatch         *)
(* argument, leaves _running, _thread, the registry, the live line and the  *)
(* terminal's contents and cursor row as the first call left them.          *)
C10_StopIdempotent ==
    (prog = "display" /\ stops = 2) => StopView = snap[1].view

\* stop(dispatch=True) has returned twice on a display with pushed and typed text
C10_Witness ==
    /\ prog = "display" /\ stops = 2 /\ snap[1].dispatch
    /\ wpc = "exited" /\ pushed /= <<>> /\ written /= <<>>

(* C11: whenever a stop() call has returned, no key loop started by the     *)
(* display is still to run or running, for every sequence of                *)
(* start(threaded=True) and stop() calls.                                   *)
C11_NoLoopAfterStop ==
    (prog = "display" /\ stops >= 1)
        => /\ wpc \notin {"start", "loop"}
           /\ orphan.wpc \notin {"start", "loop"}

(* C12: every stop() on a display started with start(threaded=True)        *)
(* eventually returns, however the caller's start() and stop() interleave   *)
(* with the thread's own startup, the thread being scheduled fairly.        *)
C12_StopReturns ==
    (prog = "display" /\ pc = "joining") ~> (pc /= "joining")

(* C13 as stated: with dispatch_on_enter, the live-line buffer still holds  *)
(* the submitted text at the moment the handler runs, and is empty once     *)
(* Enter handling has finished.                                             *)
C13_AsStated ==
    /\ []((prog = "display" /\ wpc = "callback" /\ dispatch_on_enter)
              => written = string)
    /\ [][(HReturn /\ dispatch_on_enter) => written' = <<>>]_vars

(* C13 amended: with dispatch_on_enter, Enter clears the live line first    *)
(* and then calls the handler with the text the line held: the buffer is    *)
(* empty at the moment the handler runs and once Enter handling has         *)
(* finished.                                                                *)
C13_Amended ==
    /\ []((prog = "display" /\ wpc = "callback" /\ dispatch_on_enter)
              => written = <<>>)
    /\ [][HEnter => string' = written]_vars
    /\ [][(HReturn /\ dispatch_on_enter) => written' = <<>>]_vars

\* the handler has been entered with a typed text
C13_Witness ==
    /\ prog = "display" /\ wpc = "callback" /\ dispatch_on_enter
    /\ string = <<"a">> /\ written = <<>>

(* C15: when the thread of a display has ended with an exception (the       *)
(* handler raised, or a key's branch raised), no stop() call completes      *)
(* normally: the failure reaches the caller of stop().                      *)
C15_FaultReachesStop ==
    (prog = "display" /\ wpc = "faulted") => stops = 0

(* C14: once stop(dispatch=True) has returned, every row of the display's   *)
(* region is blank on the terminal: the registry's rows and the row of the  *)
(* prompt and the live line.                                                *)
C14_StopErasesRegion ==
    (prog = "display" /\ stops >= 1 /\ snap[1].dispatch)
        => \A r \in 1..TermRows : term.scr[r] = <<>>

\* the raw byte selection read before the one it is handling
SelLastKey == IF keys_read = <<>> THEN NoKey ELSE keys_read[Len(keys_read)]

(* C16: in every input mode a navigation code moves the cursor or the       *)
(* highlight only when the byte before it was the special-key prefix;       *)
(* without the prefix it is a printable character, and a prefix followed    *)
(* by another byte causes no navigation.                                    *)
C16_PrefixedNavigationOnly ==
    [][/\ \A key \in SelKeys \ {ENTER} :
            (SelKey(key) /\ ~(key \in {UP, DOWN} /\ SelLastKey = SPECIAL))
                => idx' = idx
       /\ \A key \in {RIGHT, LEFT, UP} :
            ((IWKey(key) \/ DKey(key)) /\ last_key /= SPECIAL)
                => (written' = InsertAt(written, curr, Decode(key))
                    /\ curr' = curr + 1)
       /\ \A key \in PlainKeys :
            ((IWKey(key) \/ DKey(key)) /\ last_key = SPECIAL)
                => (written' = InsertAt(written, curr, Decode(key))
                    /\ curr' = curr + 1)]_vars

\* _clear_lines on the registry reg, then _render_lines on the registry reg2
Redraw(reg, reg2) ==
    ClearLines(reg, lines) \o RenderLines(reg2, lines, prompt, written, FALSE)

\* the registries push and clear put between the two: one value or a batch
\* pushed, the registry emptied, the registry left as it is
RedrawnRegestries ==
    {regestry, EmptyRegestry(lines)}
        \cup {PushRegestry(regestry, o) : o \in PushItems}
        \cup {PushRegestry(regestry, ListObj(b)) : b \in PushBatches}

C18_ColumnFollowsCursor ==
    (prog = "display" /\ wpc = "loop" /\ running)
        => /\ term.col = Len(prompt) + curr
           /\ term.scr[term.row + 1] = Strip(prompt \o written)

(* C19: in selection, after the initial render and after every Up and Down, *)
(* the row of each option shows exactly passive + option, and the           *)
(* highlighted row exactly active + option, for markers of any lengths.     *)
C19_RowsShowOptions ==
    (prog = "selection" /\ pc = "loop")
        => \A j \in 1..Len(options) :
              term.scr[j] = Strip((IF j - 1 = idx THEN active ELSE passive)
                                      \o options[j])

(* C20: when a push in the handler and a push on the caller's thread have  *)
(* both completed, however their statements interleaved, the registry has   *)
(* `lines` entries, and every pushed line is in it when all of them fit.    *)
C20_ConcurrentPushesKeepRegistry ==
    (prog = "display" /\ hpush.pc = "done" /\ cpush.pc = "done")
        => /\ Len(regestry) = lines
           /\ Len(pushed) <= lines
                 => \A i \in 1..Len(pushed) :
                       \E j \in 1..Len(regestry) : regestry[j] = pushed[i]

(* C21: stop() called from inside the handler, threaded or not, does not   *)
(* fail: no RuntimeError is raised in the context that runs the key loop.   *)
C21_StopInHandlerNoFault ==
    (prog = "display" /\ callback = "stops") => fault /= "RuntimeError"

====
